---- MODULE Spec2Model ----
(***************************************************************************)
(* Model of the repository mirroring core of bit-to-hub (GitManager).      *)
(* One mirrorRepository call is a sequential async flow; every await on    *)
(* the file system or on a git subprocess is one step whose outcome the    *)
(* environment chooses.  Strings that the code builds or inspects are      *)
(* sequences of tokens; String.includes is contiguous-subsequence search.  *)
(* A second specification, DriverSpec, models the command line driver     *)
(* (BitToHubMigrator) around mirrorRepository.                             *)
(***************************************************************************)
EXTENDS Integers, Sequences, FiniteSets, TLC

(***************************************************************************)
(* Program constants.                                                      *)
(***************************************************************************)
\* default sizeLimit of findLargeFiles: 100 * 1024 * 1024
DefaultSizeLimit == 104857600

(***************************************************************************)
(* Repository content: objects, references, fixtures.                      *)
(***************************************************************************)
\* blobs that rev-list --objects --all prints with a path
Objects == {"readme", "video", "video2", "edge"}

\* the order in which rev-list enumerates the objects
ObjOrder == <<"readme", "video", "video2", "edge">>

\* repository-relative path under which each object was introduced
PathOf(o) ==
  CASE o = "readme" -> "README.md"
    [] o = "video"  -> "assets/video.mp4"
    [] o = "video2" -> "assets/video.mp4"
    [] o = "edge"   -> "data.bin"

\* decompressed size in bytes as printed by git cat-file -s
SizeOf(o) ==
  CASE o = "readme" -> 1024
    [] o = "video"  -> 157286400
    [] o = "video2" -> 209715200
    [] o = "edge"   -> 104857600

Branches == {"refs/heads/main", "refs/heads/feature-x", "refs/heads/old"}
Tags == {"refs/tags/v1"}
BranchesAndTags == Branches \cup Tags

\* refs/original/<ref>: the backup filter-branch writes for a rewritten ref
BackupOf(r) ==
  CASE r = "refs/heads/main"      -> "refs/original/refs/heads/main"
    [] r = "refs/heads/feature-x" -> "refs/original/refs/heads/feature-x"
    [] r = "refs/heads/old"       -> "refs/original/refs/heads/old"
    [] r = "refs/tags/v1"         -> "refs/original/refs/tags/v1"

BackupRefs == {BackupOf(r) : r \in BranchesAndTags}

\* a repository with no reference at all (also: no repository on disk)
EmptyRepo == [r \in {} |-> {}]

\* a reference store maps each reference it holds to the objects reachable
\* from it
RepoDemo ==
  [r \in {"refs/heads/main", "refs/heads/feature-x", "refs/tags/v1"} |->
     {"readme"}]

RepoDemo2 ==
  [r \in {"refs/heads/main", "refs/heads/feature-x", "refs/tags/v1"} |->
     IF r = "refs/heads/feature-x" THEN {"readme"} ELSE {"readme", "video"}]

RepoDemo3 ==
  [r \in {"refs/heads/main", "refs/heads/feature-x", "refs/tags/v1",
          "refs/notes/commits"} |->
     CASE r = "refs/heads/main"      -> {"readme", "edge"}
       [] r = "refs/heads/feature-x" -> {"video"}
       [] r = "refs/tags/v1"         -> {"readme"}
       [] r = "refs/notes/commits"   -> {"readme"}]

RepoDemo4 ==
  [r \in {"refs/heads/main", "refs/heads/feature-x", "refs/tags/v1"} |->
     CASE r = "refs/heads/main"      -> {"readme", "video", "video2"}
       [] r = "refs/heads/feature-x" -> {"readme", "edge"}
       [] r = "refs/tags/v1"         -> {"readme", "video"}]

SourceRepos == {RepoDemo, RepoDemo2, RepoDemo3, RepoDemo4}

\* what the destination holds before the run: nothing, or a stale branch
DestOld == [r \in {"refs/heads/old"} |-> {"readme"}]
DestRepos == {EmptyRepo, DestOld}

\* objects reachable from any reference of a store
Reachable(refs) == UNION {refs[r] : r \in DOMAIN refs}

(***************************************************************************)
(* Strings.                                                                *)
(***************************************************************************)
\* String.prototype.includes over token sequences
Includes(msg, sub) ==
  \E i \in 1..(Len(msg) - Len(sub) + 1) : SubSeq(msg, i, i + Len(sub) - 1) = sub

\* error texts the git toolchain can answer a push with
MsgExceeds ==
  <<"this", "exceeds", "GitHub's", "file", "size", "limit", "of", "100.00", "MB">>
MsgGH001 == <<"remote:", "error:", "GH001:", "Large", "files", "detected", ".">>
MsgExceedsPlain == <<"pack", "exceeds", "file", "size", "limit">>
MsgLargeLower == <<"remote:", "large", "files", "detected">>
MsgAuth == <<"Authentication", "failed">>
\* the answer to a push of which the host refused single references
MsgRejectedRef == <<"!", "[remote rejected]", "(protected branch hook declined)">>
PushErrors ==
  {MsgExceeds, MsgGH001, MsgExceedsPlain, MsgLargeLower, MsgAuth, MsgRejectedRef}

\* error text of a failed clone, mkdir or rewrite subprocess
MsgTool == <<"fatal:", "tool", "failed">>

NoError == <<>>

(***************************************************************************)
(* Pure decisions of the code.                                             *)
(***************************************************************************)
\* variant: any mention of a file size limit counts as a large-file rejection
IsLargeFileError_Loose(errorMessage) ==
  \/ Includes(errorMessage, <<"file", "size", "limit">>)
  \/ Includes(errorMessage, <<"GH001:", "Large", "files", "detected">>)

\* variant: only the first of the two signatures is looked for
IsLargeFileError_FirstOnly(errorMessage) ==
  Includes(errorMessage, <<"exceeds", "GitHub's", "file", "size", "limit">>)

\* attemptPush: is the caught error a large-file rejection
IsLargeFileError(errorMessage) ==
  \/ Includes(errorMessage, <<"exceeds", "GitHub's", "file", "size", "limit">>)
  \/ Includes(errorMessage, <<"GH001:", "Large", "files", "detected">>)

\* variant: the retry flag is ignored, a large-file error always returns false
AttemptPushCatch_NoRetryFlag(errorMessage, isRetry) ==
  IF IsLargeFileError(errorMessage)
  THEN [kind |-> "false", err |-> NoError]
  ELSE [kind |-> "throw", err |-> <<"Failed to push to GitHub:">> \o errorMessage]

\* attemptPush: the catch block; kind is "false" (return false) or "throw"
AttemptPushCatch(errorMessage, isRetry) ==
  IF IsLargeFileError(errorMessage)
  THEN IF isRetry
       THEN [kind |-> "throw",
             err  |-> <<"Large files still present after cleanup:">> \o errorMessage]
       ELSE [kind |-> "false", err |-> NoError]
  ELSE [kind |-> "throw", err |-> <<"Failed to push to GitHub:">> \o errorMessage]

\* variant: >= instead of >
ShouldRewrite_Always(files) == Len(files) >= 0

\* pushToGitHub: if (largeFiles.length > 0) rewrite and retry, else throw
ShouldRewrite(files) == Len(files) > 0

\* variant: the exit code is not looked at
RevListCloseRejects_Never(code) == FALSE

\* findLargeFiles: the 'close' handler rejects on a non-zero exit code
RevListCloseRejects(code) == code # 0

\* variant: the failure is logged and the function returns true
FilterBranchCatch_Swallow(message) == [kind |-> "return", err |-> NoError]

\* removeLargeFilesWithFilterBranch: the catch block rethrows
FilterBranchCatch(message) ==
  [kind |-> "throw",
   err  |-> <<"Failed to remove large files with filter-branch:">> \o message]

\* pushToGitHub: the catch around scan, rewrite and retry
WrapCleanupError(inner) ==
  <<"Failed to push to GitHub. Cleanup attempt failed:">> \o inner

\* git clone --bare copies the branches and the tags of the source
CloneBare(src) == [r \in (DOMAIN src) \cap BranchesAndTags |-> src[r]]

\* variant: a push without --mirror leaves the destination's other references
MirrorPush_NoPrune(local, dest) ==
  [r \in (DOMAIN local) \cup (DOMAIN dest) |->
     IF r \in DOMAIN local THEN local[r] ELSE dest[r]]

\* git push --mirror --force: the destination's references become the local ones
MirrorPush(local, dest) == local

\* variant: an object whose size cannot be read is taken to be oversized
GetObjectSize_AssumeLarge(o, lookupOk) ==
  IF lookupOk THEN SizeOf(o) ELSE DefaultSizeLimit

\* git push --mirror --force without --atomic: the references are updated
\* one by one, so a push that ends with single references refused has
\* updated the others (here: one other); any other failure leaves the
\* destination as it was
RejectedPush(local, dest, msg) ==
  IF msg = MsgRejectedRef
  THEN {dest} \cup
       {[r \in (DOMAIN dest) \cup {x} |-> IF r = x THEN local[x] ELSE dest[r]] :
          x \in DOMAIN local}
  ELSE {dest}

\* getObjectSize: the size on exit code 0, else 0
GetObjectSize(o, lookupOk) == IF lookupOk THEN SizeOf(o) ELSE 0

\* a size lookup that has not settled, and the null of a settled one
PendingResult == [path |-> "", size |-> 0, hash |-> "pending"]
NullResult == [path |-> "", size |-> 0, hash |-> "null"]

\* variant: only a size above the limit gives a record
LookupResult_Strict(o, size, sizeLimit) ==
  IF size > sizeLimit
  THEN [path |-> PathOf(o), size |-> size, hash |-> o]
  ELSE NullResult

\* findLargeFiles: the .then of one size lookup (a record or null)
LookupResult(o, size, sizeLimit) ==
  IF size >= sizeLimit
  THEN [path |-> PathOf(o), size |-> size, hash |-> o]
  ELSE NullResult

\* rev-list --objects --all: one line per commit (no path) and per object
RECURSIVE SelectSeq2(_, _)
SelectSeq2(order, keep) ==
  IF order = <<>> THEN <<>>
  ELSE IF Head(order) \in keep
       THEN <<Head(order)>> \o SelectSeq2(Tail(order), keep)
       ELSE SelectSeq2(Tail(order), keep)

RevListLines(refs) ==
  IF DOMAIN refs = {} THEN <<>>
  ELSE <<"commit">> \o SelectSeq2(ObjOrder, Reachable(refs))

\* const [hash, ...pathParts] = line.split(' '): does the line carry a path
HasPath(line) == line \in Objects

\* results.filter(result => result !== null), in enumeration order
RECURSIVE FilterValid(_, _)
FilterValid(order, slots) ==
  IF order = <<>> THEN <<>>
  ELSE LET o == Head(order)
           rest == FilterValid(Tail(order), slots)
       IN IF o \in DOMAIN slots /\ slots[o] # NullResult
          THEN <<slots[o]>> \o rest
          ELSE rest

\* removeLargeFiles: largeFiles.map(file => file.path)
FilePaths(files) == [i \in 1..Len(files) |-> files[i].path]

PathSet(paths) == {paths[i] : i \in 1..Len(paths)}

\* the objects of a reference that survive the removal of the paths
Keep(objs, paths) == {o \in objs : PathOf(o) \notin paths}

\* variant: the rewrite runs but removes nothing
StripPaths_Nothing(refs, paths) == refs

\* rewriting with empty commits pruned: a stripped path disappears from every
\* branch and tag, and a reference left without any commit is deleted
StripPaths(refs, paths) ==
  [r \in {x \in DOMAIN refs :
            x \notin BranchesAndTags \/ Keep(refs[x], paths) # {}} |->
     IF r \in BranchesAndTags THEN Keep(refs[r], paths) ELSE refs[r]]

\* git filter-branch: rewrites as above and keeps the old value of every
\* reference it changed under refs/original/
FilterBranch(refs, paths) ==
  LET changed == {r \in (DOMAIN refs) \cap BranchesAndTags :
                     Keep(refs[r], paths) # refs[r]}
      new == StripPaths(refs, paths)
  IN [r \in (DOMAIN new) \cup {BackupOf(c) : c \in changed} |->
        IF r \in DOMAIN new /\ r \notin BackupRefs THEN new[r]
        ELSE IF \E c \in changed : BackupOf(c) = r
             THEN refs[CHOOSE c \in changed : BackupOf(c) = r]
             ELSE new[r]]

\* variant: the backup references are listed but none is deleted
DeleteOriginalRefs_None(refs, failed) == refs

\* the loop of update-ref -d over refs/original/: every backup reference
\* goes except those whose deletion failed
DeleteOriginalRefs(refs, failed) ==
  [r \in {x \in DOMAIN refs : x \notin BackupRefs \/ x \in failed} |-> refs[r]]

(***************************************************************************)
(* State.                                                                  *)
(***************************************************************************)
VARIABLES
  pc,            \* position of the mirrorRepository call
  outcome,       \* "pending", "returned" (true) or "threw"
  error,         \* message of the error in flight or thrown
  repoPath,      \* TRUE once cloneRepository has returned the path
  tempDirExists, \* this.tempDir exists on disk
  wsExists,      \* tempDir/repoName exists on disk
  srcUrlOk,      \* new URL(bitbucketCloneUrl) parses
  dstUrlOk,      \* new URL(githubCloneUrl) parses
  srcRefs,       \* references of the source repository
  localRefs,     \* references of the local mirror
  destRefs,      \* references of the destination repository
  cloneCalls,    \* git.clone invocations
  pushLog,       \* one entry per attemptPush call: its result
  scanCalls,     \* findLargeFiles invocations
  revList,       \* findLargeFiles: what the rev-list process did
  scanState,     \* findLargeFiles: state of the returned promise
  rewriteCalls,  \* removeLargeFiles invocations
  slots,         \* findLargeFiles: settled size lookups
  lookupFailed,  \* findLargeFiles: objects whose getObjectSize failed
  largeFiles,    \* pushToGitHub: the array findLargeFiles resolved with
  primary,       \* removeLargeFiles: state of the git filter-repo process
  fb,            \* removeLargeFiles: fallback run started by each handler
  rwPromise,     \* removeLargeFiles: state of the returned promise
  rwError,       \* removeLargeFiles: rejection reason
  primaryArgs,   \* removeLargeFiles: the paths of each git filter-repo spawn
  primaryEvents, \* removeLargeFiles: events the git filter-repo process emitted
  deleteFailed,  \* fallback: backup references whose update-ref -d failed
  gitCleanup     \* cleanupRepository: the git commands it invoked, in order

\* state of one run of the command line driver (BitToHubMigrator)
VARIABLES
  command,       \* "migrate" (migrateAll) or "migrate-specific"
  dryRun,        \* this.dryRun
  skipExisting,  \* this.skipExisting
  tempDir,       \* this.tempDir, as path segments
  repoNames,     \* the repositories to process, in list order
  githubRepos,   \* names of the repositories that exist on GitHub
  dpc,           \* position of the driver
  idx,           \* loop index into repoNames
  calls,         \* every call to an API client or to mirrorRepository so far
  workspaces,    \* repoPath of every mirrorRepository call so far
  stats,         \* this.stats
  run,           \* which run of the command line this is (1 = the first)
  createdEmpty   \* repositories a run created on GitHub and no run has
                 \* mirrored yet

\* state of one BitbucketAPI.getAllRepositories call and of the server
VARIABLES
  pages,         \* server: the values of each page of the workspace's list
  gpc,           \* position of getAllRepositories
  url,           \* getAllRepositories: let url
  repositories,  \* getAllRepositories: const repositories
  requests,      \* every request sent: the full URL and the answer's status
  nextLinks      \* the next link of every page received, in order

pagerVars == <<pages, gpc, url, repositories, requests, nextLinks>>

driverVars == <<command, dryRun, skipExisting, tempDir, repoNames, githubRepos,
                dpc, idx, calls, workspaces, stats, run, createdEmpty,
                pagerVars>>

mirrorVars == <<pc, outcome, error, repoPath, tempDirExists, wsExists, srcUrlOk,
          dstUrlOk, srcRefs, localRefs, destRefs, cloneCalls, pushLog,
          scanCalls, revList, scanState, rewriteCalls, slots, lookupFailed, largeFiles, primary, fb, rwPromise,
          rwError, primaryArgs, primaryEvents, deleteFailed, gitCleanup>>

vars == <<mirrorVars, driverVars>>

fsVars == <<tempDirExists, wsExists>>
urlVars == <<srcUrlOk, dstUrlOk>>
scanVars == <<scanCalls, revList, scanState, slots, lookupFailed, largeFiles>>
rewriteVars == <<rewriteCalls, primary, fb, rwPromise, rwError, primaryArgs,
                 primaryEvents, deleteFailed>>

\* the two event handlers of the filter-repo process that start a fallback
Handlers == {"close", "error"}

\* no getAllRepositories call under study
PagerIdle ==
  /\ pages = <<>>
  /\ gpc = "idle"
  /\ url = <<>>
  /\ repositories = <<>>
  /\ requests = <<>>
  /\ nextLinks = <<>>

\* no driver around the mirrorRepository call under study
DriverIdle ==
  /\ command = "none"
  /\ dryRun = FALSE
  /\ skipExisting = TRUE
  /\ tempDir = <<>>
  /\ repoNames = <<>>
  /\ githubRepos = {}
  /\ dpc = "idle"
  /\ idx = 1
  /\ calls = <<>>
  /\ workspaces = <<>>
  /\ stats = [total |-> 0, success |-> 0, failed |-> 0, skipped |-> 0]
  /\ run = 1
  /\ createdEmpty = {}
  /\ PagerIdle

Init ==
  /\ DriverIdle
  /\ pc = "start"
  /\ outcome = "pending"
  /\ error = NoError
  /\ repoPath = FALSE
  /\ tempDirExists \in BOOLEAN
  /\ wsExists \in BOOLEAN
  /\ wsExists => tempDirExists
  /\ srcUrlOk \in BOOLEAN
  /\ dstUrlOk \in BOOLEAN
  /\ srcRefs \in SourceRepos
  /\ localRefs = EmptyRepo
  /\ destRefs \in DestRepos
  /\ cloneCalls = 0
  /\ pushLog = <<>>
  /\ scanCalls = 0
  /\ revList = "none"
  /\ scanState = "none"
  /\ rewriteCalls = 0
  /\ slots = EmptyRepo
  /\ lookupFailed = {}
  /\ largeFiles = <<>>
  /\ primary = "none"
  /\ fb = [h \in Handlers |-> "none"]
  /\ rwPromise = "none"
  /\ rwError = NoError
  /\ primaryArgs = <<>>
  /\ primaryEvents = {}
  /\ deleteFailed = {}
  /\ gitCleanup = <<>>

\* an error thrown inside mirrorRepository's try: control goes to finally
Throw(e) ==
  /\ error' = e
  /\ pc' = "finally"

(***************************************************************************)
(* cloneRepository                                                         *)
(***************************************************************************)
\* ensureTempDir: fs.access, and fs.mkdir when it fails
EnsureTempDir ==
  /\ pc = "start"
  /\ \/ /\ tempDirExists
        /\ pc' = "c_access"
        /\ UNCHANGED <<tempDirExists, error>>
     \/ /\ ~tempDirExists
        /\ tempDirExists' = TRUE
        /\ pc' = "c_access"
        /\ UNCHANGED error
     \/ /\ ~tempDirExists
        /\ Throw(<<"mkdir:">> \o MsgTool)
        /\ UNCHANGED tempDirExists
  /\ UNCHANGED <<outcome, repoPath, wsExists, urlVars, srcRefs, localRefs,
                 destRefs, cloneCalls, pushLog, scanVars, rewriteVars,
                 gitCleanup>>
  /\ UNCHANGED driverVars

\* try { fs.access(repoPath); fs.rm(repoPath) } catch {}: a failed rm is
\* swallowed like a missing directory
RemoveStale ==
  /\ pc = "c_access"
  /\ \/ /\ ~wsExists
        /\ UNCHANGED wsExists
     \/ /\ wsExists
        /\ \E rmOk \in BOOLEAN : wsExists' = ~rmOk
  /\ pc' = "c_auth"
  /\ UNCHANGED <<outcome, error, repoPath, tempDirExists, urlVars, srcRefs,
                 localRefs, destRefs, cloneCalls, pushLog, scanVars,
                 rewriteVars, gitCleanup>>
  /\ UNCHANGED driverVars

\* variant: a URL that does not parse is passed on as it is
AddAuthToUrlThrows_Never(urlOk) == FALSE

\* addAuthToUrl: new URL(url) throws on a malformed URL, and the catch
\* throws 'Invalid URL format: ...'
AddAuthToUrlThrows(urlOk) == ~urlOk

MsgInvalidUrl == <<"Invalid URL format:">>

\* addAuthToUrl(cloneUrl, ...) in cloneRepository
CloneAddAuth ==
  /\ pc = "c_auth"
  /\ IF AddAuthToUrlThrows(srcUrlOk)
     THEN Throw(MsgInvalidUrl)
     ELSE pc' = "c_clone" /\ UNCHANGED error
  /\ UNCHANGED <<outcome, repoPath, fsVars, urlVars, srcRefs, localRefs,
                 destRefs, cloneCalls, pushLog, scanVars, rewriteVars,
                 gitCleanup>>
  /\ UNCHANGED driverVars

\* git.clone(url, repoPath, ['--bare']) succeeds; git refuses a path that
\* still holds the stale mirror
GitCloneOk ==
  /\ pc = "c_clone"
  /\ ~wsExists
  /\ wsExists' = TRUE
  /\ localRefs' = CloneBare(srcRefs)
  /\ repoPath' = TRUE
  /\ cloneCalls' = cloneCalls + 1
  /\ pc' = "p_auth"
  /\ UNCHANGED <<outcome, error, tempDirExists, urlVars, srcRefs, destRefs,
                 pushLog, scanVars, rewriteVars, gitCleanup>>
  /\ UNCHANGED driverVars

\* git.clone fails; it may leave the directory it created behind
GitCloneFail ==
  /\ pc = "c_clone"
  /\ \E leftover \in BOOLEAN : wsExists' = (wsExists \/ leftover)
  /\ cloneCalls' = cloneCalls + 1
  /\ Throw(<<"Failed to clone repository:">> \o MsgTool)
  /\ UNCHANGED <<outcome, repoPath, tempDirExists, urlVars, srcRefs, localRefs,
                 destRefs, pushLog, scanVars, rewriteVars, gitCleanup>>
  /\ UNCHANGED driverVars

(***************************************************************************)
(* pushToGitHub and attemptPush                                            *)
(***************************************************************************)
\* addAuthToUrl(githubCloneUrl, ...) in pushToGitHub
PushAddAuth ==
  /\ pc = "p_auth"
  /\ IF AddAuthToUrlThrows(dstUrlOk)
     THEN Throw(MsgInvalidUrl)
     ELSE pc' = "p_first" /\ UNCHANGED error
  /\ UNCHANGED <<outcome, repoPath, fsVars, urlVars, srcRefs, localRefs,
                 destRefs, cloneCalls, pushLog, scanVars, rewriteVars,
                 gitCleanup>>
  /\ UNCHANGED driverVars

\* attemptPush: the mirror push is accepted
AttemptPushOk ==
  /\ pc \in {"p_first", "p_retry"}
  /\ destRefs' = MirrorPush(localRefs, destRefs)
  /\ pushLog' = Append(pushLog, [ok |-> TRUE, msg |-> NoError,
                                 sent |-> DOMAIN localRefs])
  /\ pc' = "finally"
  /\ UNCHANGED <<outcome, error, repoPath, fsVars, urlVars, srcRefs, localRefs,
                 cloneCalls, scanVars, rewriteVars, gitCleanup>>
  /\ UNCHANGED driverVars

\* variant: a failed retry starts another scan, rewrite and push
AfterPushFailure_Rescan(isRetry, kind) ==
  IF isRetry \/ kind = "false" THEN "scan" ELSE "throw"

\* pushToGitHub: only the first attemptPush returning false leads to the
\* scan; a throw of either attemptPush, and a retry that did not succeed,
\* end in a throw
AfterPushFailure(isRetry, kind) ==
  IF ~isRetry /\ kind = "false" THEN "scan" ELSE "throw"

\* attemptPush: addRemote or push throws; the catch classifies the message
AttemptPushFail ==
  /\ pc \in {"p_first", "p_retry"}
  /\ \E msg \in PushErrors :
       LET r == AttemptPushCatch(msg, pc = "p_retry") IN
       /\ pushLog' = Append(pushLog, [ok |-> FALSE, msg |-> msg,
                                      sent |-> DOMAIN localRefs])
       /\ destRefs' \in RejectedPush(localRefs, destRefs, msg)
       /\ IF AfterPushFailure(pc = "p_retry", r.kind) = "scan"
          THEN pc' = "scan" /\ UNCHANGED error
          ELSE IF pc = "p_first"
               THEN Throw(r.err)
               ELSE IF r.kind = "false"
                    THEN Throw(WrapCleanupError(
                           <<"Failed to push even after removing large files">>))
                    ELSE Throw(WrapCleanupError(r.err))
  /\ UNCHANGED <<outcome, repoPath, fsVars, urlVars, srcRefs, localRefs,
                 cloneCalls, scanVars, rewriteVars, gitCleanup>>
  /\ UNCHANGED driverVars

(***************************************************************************)
(* findLargeFiles                                                          *)
(***************************************************************************)
\* findLargeFiles is called: rev-list is spawned
ScanSpawn ==
  /\ pc = "scan"
  /\ scanCalls' = scanCalls + 1
  /\ scanState' = "pending"
  /\ pc' = "revlist"
  /\ UNCHANGED <<outcome, error, repoPath, fsVars, urlVars, srcRefs, localRefs,
                 destRefs, cloneCalls, pushLog, revList, slots, lookupFailed,
                 largeFiles, rewriteVars, gitCleanup>>
  /\ UNCHANGED driverVars

\* 'error': rev-list cannot be spawned; the promise rejects with the spawn
\* error and pushToGitHub's catch wraps it
ScanError ==
  /\ pc = "revlist"
  /\ revList' = "error"
  /\ scanState' = "rejected"
  /\ Throw(WrapCleanupError(<<"spawn", "git", "ENOENT">>))
  /\ UNCHANGED <<outcome, repoPath, fsVars, urlVars, srcRefs, localRefs,
                 destRefs, cloneCalls, pushLog, scanCalls, slots, lookupFailed,
                 largeFiles, rewriteVars, gitCleanup>>
  /\ UNCHANGED driverVars

\* 'close': a non-zero code rejects; code 0 starts one size lookup per
\* output line that carries a path (a failed rev-list printed nothing)
ScanClose ==
  /\ pc = "revlist"
  /\ \E code \in {0, 128} :
       /\ revList' = IF code = 0 THEN "exit0" ELSE "exit_nonzero"
       /\ IF RevListCloseRejects(code)
          THEN /\ scanState' = "rejected"
               /\ Throw(WrapCleanupError(<<"Failed to list git objects">>))
               /\ UNCHANGED slots
          ELSE LET lines == IF code = 0 THEN RevListLines(localRefs) ELSE <<>> IN
               /\ slots' = [o \in {lines[i] :
                                    i \in {j \in 1..Len(lines) : HasPath(lines[j])}}
                              |-> PendingResult]
               /\ pc' = "lookups"
               /\ UNCHANGED <<scanState, error>>
  /\ UNCHANGED <<outcome, repoPath, fsVars, urlVars, srcRefs, localRefs,
                 destRefs, cloneCalls, pushLog, scanCalls, lookupFailed,
                 largeFiles, rewriteVars, gitCleanup>>
  /\ UNCHANGED driverVars

\* one getObjectSize settles, in any order
LookupSettle ==
  /\ pc = "lookups"
  /\ \E o \in DOMAIN slots : \E lookupOk \in BOOLEAN :
       /\ slots[o] = PendingResult
       /\ slots' = [slots EXCEPT ![o] =
            LookupResult(o, GetObjectSize(o, lookupOk), DefaultSizeLimit)]
       /\ lookupFailed' = IF lookupOk THEN lookupFailed
                                     ELSE lookupFailed \cup {o}
  /\ UNCHANGED <<pc, outcome, error, repoPath, fsVars, urlVars, srcRefs,
                 localRefs, destRefs, cloneCalls, pushLog, scanCalls, revList,
                 scanState, largeFiles, rewriteVars, gitCleanup>>
  /\ UNCHANGED driverVars

\* variant: the first lookup to settle resolves the scan (Promise.race)
AllSettled_First(s) == \E o \in DOMAIN s : s[o] # PendingResult

\* Promise.all(filePromises) resolves when every lookup has settled
AllSettled(s) == \A o \in DOMAIN s : s[o] # PendingResult

\* Promise.all has every result: findLargeFiles resolves, and pushToGitHub
\* goes on to the rewrite or throws 'no large files found'
ScanResolve ==
  /\ pc = "lookups"
  /\ AllSettled(slots)
  /\ largeFiles' = FilterValid(ObjOrder, slots)
  /\ scanState' = "resolved"
  /\ IF ShouldRewrite(largeFiles')
     THEN pc' = "rewrite" /\ UNCHANGED error
     ELSE Throw(WrapCleanupError(<<"Push failed but no large files found">>))
  /\ UNCHANGED <<outcome, repoPath, fsVars, urlVars, srcRefs, localRefs,
                 destRefs, cloneCalls, pushLog, scanCalls, revList, slots,
                 lookupFailed, rewriteVars, gitCleanup>>
  /\ UNCHANGED driverVars

(***************************************************************************)
(* removeLargeFiles and removeLargeFilesWithFilterBranch                   *)
(***************************************************************************)
\* variant: the handlers never call resolve or reject
Settle_Never(state, reason) == UNCHANGED <<rwPromise, rwError>>

\* resolve / reject of removeLargeFiles' promise: only the first one counts
Settle(state, reason) ==
  IF rwPromise = "pending"
  THEN rwPromise' = state /\ rwError' = reason
  ELSE UNCHANGED <<rwPromise, rwError>>

\* the paths handed to either strategy
StripSet == PathSet(FilePaths(largeFiles))

\* removeLargeFiles is called: git filter-repo is spawned with every path
RemoveLargeFilesSpawn ==
  /\ pc = "rewrite"
  /\ rewriteCalls' = rewriteCalls + 1
  /\ IF Len(largeFiles) = 0
     THEN /\ rwPromise' = "resolved"
          /\ UNCHANGED <<primary, primaryArgs>>
     ELSE /\ rwPromise' = "pending"
          /\ primary' = "running"
          /\ primaryArgs' = Append(primaryArgs, FilePaths(largeFiles))
  /\ pc' = "r_wait"
  /\ UNCHANGED <<outcome, error, repoPath, fsVars, urlVars, srcRefs, localRefs,
                 destRefs, cloneCalls, pushLog, scanVars, fb, rwError,
                 primaryEvents, deleteFailed,
                 gitCleanup>>
  /\ UNCHANGED driverVars

\* variant: the 'close' handler falls back whatever the exit code
PrimaryCloseFallsBack_Always(code) == TRUE

\* the 'close' handler of git filter-repo: if (code === 0) resolve(true),
\* else the fallback is started
PrimaryCloseFallsBack(code) == code # 0

\* the event a 'close' with this exit code is recorded as
CloseEvent(code) == IF code = 0 THEN "close_zero" ELSE "close_nonzero"

\* 'close' with code 0: the history is rewritten, resolve(true)
PrimaryCloseOk ==
  /\ primary = "running"
  /\ ~PrimaryCloseFallsBack(0)
  /\ primary' = "closed"
  /\ primaryEvents' = primaryEvents \cup {CloseEvent(0)}
  /\ localRefs' = StripPaths(localRefs, StripSet)
  /\ Settle("resolved", NoError)
  /\ UNCHANGED <<pc, outcome, error, repoPath, fsVars, urlVars, srcRefs,
                 destRefs, cloneCalls, pushLog, scanVars, rewriteCalls, fb,
                 primaryArgs, deleteFailed,
                 gitCleanup>>
  /\ UNCHANGED driverVars

\* 'close' starts the fallback: on a non-zero code, also after a failed
\* spawn (a process that ran to code 0 has rewritten the history)
PrimaryCloseFail ==
  /\ primary \in {"running", "errored"}
  /\ \E code \in {0, 1} :
       /\ primary = "errored" => code # 0
       /\ PrimaryCloseFallsBack(code)
       /\ primaryEvents' = primaryEvents \cup {CloseEvent(code)}
       /\ localRefs' = IF code = 0 THEN StripPaths(localRefs, StripSet)
                                  ELSE localRefs
  /\ primary' = "closed"
  /\ fb' = [fb EXCEPT !["close"] = "filter"]
  /\ UNCHANGED <<pc, outcome, error, repoPath, fsVars, urlVars, srcRefs,
                 destRefs, cloneCalls, pushLog, scanVars,
                 rewriteCalls, rwPromise, rwError, primaryArgs, deleteFailed,
                 gitCleanup>>
  /\ UNCHANGED driverVars

\* 'error': git filter-repo could not be started: fall back
PrimaryError ==
  /\ primary = "running"
  /\ primary' = "errored"
  /\ primaryEvents' = primaryEvents \cup {"error"}
  /\ fb' = [fb EXCEPT !["error"] = "filter"]
  /\ UNCHANGED <<pc, outcome, error, repoPath, fsVars, urlVars, srcRefs,
                 localRefs, destRefs, cloneCalls, pushLog, scanVars,
                 rewriteCalls, rwPromise, rwError, primaryArgs, deleteFailed,
                 gitCleanup>>
  /\ UNCHANGED driverVars

\* removeLargeFilesWithFilterBranch: git filter-branch succeeds
FilterBranchOk(h) ==
  /\ fb[h] = "filter"
  /\ wsExists
  /\ localRefs' = FilterBranch(localRefs, StripSet)
  /\ fb' = [fb EXCEPT ![h] = "refs"]
  /\ UNCHANGED <<pc, outcome, error, repoPath, fsVars, urlVars, srcRefs,
                 destRefs, cloneCalls, pushLog, scanVars, rewriteCalls,
                 primary, rwPromise, rwError, primaryArgs, primaryEvents,
                 deleteFailed,
                 gitCleanup>>
  /\ UNCHANGED driverVars

\* removeLargeFilesWithFilterBranch: git filter-branch or for-each-ref
\* throws; the catch rethrows and the promise rejects
FallbackFail(h) ==
  /\ fb[h] \in {"filter", "refs"}
  /\ fb' = [fb EXCEPT ![h] = "failed"]
  /\ LET r == FilterBranchCatch(MsgTool) IN
       IF r.kind = "throw"
       THEN Settle("rejected", r.err)
       ELSE Settle("resolved", NoError)
  /\ UNCHANGED <<pc, outcome, error, repoPath, fsVars, urlVars, srcRefs,
                 localRefs, destRefs, cloneCalls, pushLog, scanVars,
                 rewriteCalls, primary, primaryArgs, primaryEvents,
                 deleteFailed,
                 gitCleanup>>
  /\ UNCHANGED driverVars

\* variant: a reference that cannot be deleted fails the fallback
DeleteRefsResult_Fatal(failed) == IF failed = {} THEN "done" ELSE "failed"

\* the try/catch around each update-ref -d only warns: the loop goes on and
\* the function returns true whatever deletions failed
DeleteRefsResult(failed) == "done"

\* the update-ref -d loop over refs/original/, a failed deletion skipped;
\* then return true
DeleteRefs(h) ==
  /\ fb[h] = "refs"
  /\ wsExists
  /\ \E failed \in SUBSET (BackupRefs \cap DOMAIN localRefs) :
       /\ localRefs' = DeleteOriginalRefs(localRefs, failed)
       /\ deleteFailed' = deleteFailed \cup failed
       /\ fb' = [fb EXCEPT ![h] = DeleteRefsResult(failed)]
       /\ IF DeleteRefsResult(failed) = "done"
          THEN Settle("resolved", NoError)
          ELSE Settle("rejected", FilterBranchCatch(MsgTool).err)
  /\ UNCHANGED <<pc, outcome, error, repoPath, fsVars, urlVars, srcRefs,
                 destRefs, cloneCalls, pushLog, scanVars, rewriteCalls,
                 primary, primaryArgs, primaryEvents, gitCleanup>>
  /\ UNCHANGED driverVars

\* variant: pushToGitHub goes on whatever removeLargeFiles settled with
RewriteThrows_Never(state) == FALSE

\* await this.removeLargeFiles(...): a rejection is thrown into the catch
\* of pushToGitHub, before cleanupRepository and the retry
RewriteThrows(state) == state = "rejected"

\* await this.removeLargeFiles(...) continues in pushToGitHub
RewriteSettled ==
  /\ pc = "r_wait"
  /\ rwPromise \in {"resolved", "rejected"}
  /\ IF RewriteThrows(rwPromise)
     THEN Throw(WrapCleanupError(rwError))
     ELSE pc' = "cleanup" /\ UNCHANGED error
  /\ UNCHANGED <<outcome, repoPath, fsVars, urlVars, srcRefs, localRefs,
                 destRefs, cloneCalls, pushLog, scanVars, rewriteVars,
                 gitCleanup>>
  /\ UNCHANGED driverVars

(***************************************************************************)
(* cleanupRepository                                                       *)
(***************************************************************************)
\* try { reflog expire; gc } catch { warn }: gc is invoked only when the
\* reflog expiry did not throw
CleanupCommands(reflogOk, gcOk) ==
  IF reflogOk
  THEN <<[cmd |-> "reflog", ok |-> TRUE], [cmd |-> "gc", ok |-> gcOk]>>
  ELSE <<[cmd |-> "reflog", ok |-> FALSE]>>

\* reflog expire, then gc; an error of either is logged and swallowed
CleanupRepository ==
  /\ pc = "cleanup"
  /\ \E reflogOk, gcOk \in BOOLEAN :
       gitCleanup' = CleanupCommands(reflogOk, gcOk)
  /\ pc' = "p_retry"
  /\ UNCHANGED <<outcome, error, repoPath, fsVars, urlVars, srcRefs, localRefs,
                 destRefs, cloneCalls, pushLog, scanVars, rewriteVars>>
  /\ UNCHANGED driverVars

(***************************************************************************)
(* mirrorRepository                                                        *)
(***************************************************************************)
\* variant: a failed fs.rm is thrown out of the finally block
ReleaseCatch_Propagate(err, rmOk) ==
  IF rmOk THEN err ELSE <<"Failed to cleanup temp directory:">> \o MsgTool

\* the try/catch around fs.rm in the finally block: a failure is only
\* warned about, the error in flight (or none) stays what it was
ReleaseCatch(err, rmOk) == err

\* finally { if (repoPath) fs.rm(repoPath) }, a failure only warned about;
\* then the call returns true or rethrows
Finally ==
  /\ pc = "finally"
  /\ IF repoPath
     THEN \E rmOk \in BOOLEAN :
            /\ wsExists' = (wsExists /\ ~rmOk)
            /\ localRefs' = IF rmOk THEN EmptyRepo ELSE localRefs
            /\ error' = ReleaseCatch(error, rmOk)
     ELSE UNCHANGED <<wsExists, localRefs, error>>
  /\ outcome' = IF error' = NoError THEN "returned" ELSE "threw"
  /\ pc' = "done"
  /\ UNCHANGED <<repoPath, tempDirExists, urlVars, srcRefs, destRefs,
                 cloneCalls, pushLog, scanVars, rewriteVars, gitCleanup>>
  /\ UNCHANGED driverVars

Next ==
  \/ EnsureTempDir
  \/ RemoveStale
  \/ CloneAddAuth
  \/ GitCloneOk
  \/ GitCloneFail
  \/ PushAddAuth
  \/ AttemptPushOk
  \/ AttemptPushFail
  \/ ScanSpawn
  \/ ScanError
  \/ ScanClose
  \/ LookupSettle
  \/ ScanResolve
  \/ RemoveLargeFilesSpawn
  \/ PrimaryCloseOk
  \/ PrimaryCloseFail
  \/ PrimaryError
  \/ \E h \in Handlers : FilterBranchOk(h)
  \/ \E h \in Handlers : FallbackFail(h)
  \/ \E h \in Handlers : DeleteRefs(h)
  \/ RewriteSettled
  \/ CleanupRepository
  \/ Finally

Spec == Init /\ [][Next]_vars

\* every subordinate process and every file system call completes: a step
\* of the call that can be taken is eventually taken
FairSpec == Spec /\ WF_vars(Next)

TypeOK ==
  /\ pc \in {"start", "c_access", "c_auth", "c_clone", "p_auth", "p_first",
             "scan", "revlist", "lookups", "rewrite", "r_wait", "cleanup", "p_retry",
             "finally", "done"}
  /\ outcome \in {"pending", "returned", "threw"}
  /\ rwPromise \in {"none", "pending", "resolved", "rejected"}
  /\ primary \in {"none", "running", "errored", "closed"}

(***************************************************************************)
(* Properties.                                                             *)
(***************************************************************************)
\* the two texts GitHub rejects an oversized blob with
LargeObjectSignature(msg) ==
  \/ Includes(msg, <<"exceeds", "GitHub's", "file", "size", "limit">>)
  \/ Includes(msg, <<"GH001:", "Large", "files", "detected">>)

\* the two substrings as the specification words them
SpecSignature(msg) ==
  \/ Includes(msg, <<"exceeds", "file", "size", "limit">>)
  \/ Includes(msg, <<"large", "files", "detected">>)

FirstPushFailed == Len(pushLog) >= 1 /\ ~pushLog[1].ok
Terminated == pc = "done"
Failing == pc \in {"finally", "done"} /\ error # NoError
PushFailedAfterRewrite ==
  Includes(error, <<"Large files still present after cleanup:">>)
BranchTagSet(refs) == (DOMAIN refs) \cap BranchesAndTags

\* C1: for every terminal outcome of mirrorRepository the workspace path
\* tempDir/repoName does not exist when the call returns or throws.
C1_WorkspaceGoneAtExit == Terminated => ~wsExists

\* C2: when both pushes fail with a large-object signature, the scan finds
\* an oversized object and the rewrite succeeds, the call has pushed exactly
\* twice, scanned once, rewritten once, and throws 'push failed after
\* rewrite'; no execution pushes a third time.
C2_AtMostOneRetry ==
  /\ Len(pushLog) <= 2
  /\ ( /\ Terminated
       /\ FirstPushFailed /\ LargeObjectSignature(pushLog[1].msg)
       /\ Len(largeFiles) > 0
       /\ rwPromise = "resolved"
       /\ \A i \in 1..Len(pushLog) :
            ~pushLog[i].ok /\ LargeObjectSignature(pushLog[i].msg) )
     => /\ Len(pushLog) = 2
        /\ scanCalls = 1
        /\ rewriteCalls = 1
        /\ outcome = "threw"
        /\ PushFailedAfterRewrite

C2_Witness ==
  /\ Terminated /\ Len(pushLog) = 2 /\ rwPromise = "resolved"
  /\ \A i \in 1..2 : ~pushLog[i].ok /\ LargeObjectSignature(pushLog[i].msg)
  /\ PushFailedAfterRewrite

\* C3: a first push that fails with a message matching neither signature
\* fails the call at once: no scan, no rewrite, no second push.
C3_NonRecoverable ==
  (FirstPushFailed /\ ~LargeObjectSignature(pushLog[1].msg))
    => /\ scanCalls = 0
       /\ rewriteCalls = 0
       /\ Len(pushLog) = 1
       /\ Failing
       /\ Terminated => outcome = "threw"

C3_Witness ==
  /\ Terminated /\ FirstPushFailed /\ pushLog[1].msg = MsgExceedsPlain
  /\ outcome = "threw"

\* C4: a first push rejected with a large-object signature followed by a
\* scan that resolves with an empty result fails the call without a rewrite
\* and without a second push.
C4_FalseSignatureGuard ==
  (scanState = "resolved" /\ Len(largeFiles) = 0)
    => /\ rewriteCalls = 0
       /\ Len(pushLog) = 1
       /\ Failing
       /\ Terminated => outcome = "threw"

C4_Witness ==
  /\ Terminated /\ scanState = "resolved" /\ Len(largeFiles) = 0
  /\ FirstPushFailed /\ LargeObjectSignature(pushLog[1].msg)
  /\ outcome = "threw"

C7_StaleRemovedBeforeClone == pc = "c_clone" => ~wsExists

\* C8 (as claimed): a first push error leads to the recovery path exactly
\* when its message contains "exceeds file size limit" or "large files
\* detected".
C8_SpecSignatures ==
  (Len(pushLog) = 1 /\ FirstPushFailed) =>
    ((pc \notin {"finally", "done"}) <=> SpecSignature(pushLog[1].msg))

\* C8 (amended): a push error is a large-object failure exactly when its
\* message contains "exceeds GitHub's file size limit" or "GH001: Large
\* files detected"; on the first attempt such an error is recoverable and
\* every other error is thrown at once as 'Failed to push to GitHub'.
C8_CodeSignatures ==
  /\ (Len(pushLog) = 1 /\ FirstPushFailed) =>
       IF LargeObjectSignature(pushLog[1].msg)
       THEN pc \notin {"finally", "done"} \/ scanCalls = 1
       ELSE /\ Failing
            /\ scanCalls = 0
            /\ error = <<"Failed to push to GitHub:">> \o pushLog[1].msg
  /\ (Len(pushLog) = 2 /\ ~pushLog[2].ok) =>
       (PushFailedAfterRewrite <=> LargeObjectSignature(pushLog[2].msg))

C8_Witness ==
  /\ Len(pushLog) = 1 /\ FirstPushFailed /\ pushLog[1].msg = MsgGH001
  /\ pc = "scan"

C10_ScanFailure ==
  /\ revList \in {"error", "exit_nonzero"}
       => /\ scanState = "rejected"
          /\ rewriteCalls = 0
          /\ Len(pushLog) = 1
          /\ Failing
          /\ ~Includes(error, <<"Push failed but no large files found">>)
          /\ Terminated => outcome = "threw"
  /\ (scanState = "resolved" /\ Len(largeFiles) = 0)
       => Includes(error, <<"Push failed but no large files found">>)

C10_Witness ==
  /\ Terminated /\ revList = "exit_nonzero" /\ scanState = "rejected"
  /\ outcome = "threw"
  /\ Includes(error, <<"Failed to list git objects">>)

(***************************************************************************)
(* C11: one run of git filter-repo, the fallback only after its failure    *)
(***************************************************************************)
FallbackStarted == \E h \in Handlers : fb[h] # "none"

\* C11: in one removeLargeFiles call with a non-empty path set git
\* filter-repo is spawned exactly once, with every path of the set; the
\* fallback has been started if and only if the process could not be
\* started or closed with a non-zero code, and never after a close with
\* code 0
C11_PrimaryOnceThenFallback ==
  /\ rewriteCalls <= 1
  /\ Len(primaryArgs) = (IF rewriteCalls = 1 /\ Len(largeFiles) > 0 THEN 1 ELSE 0)
  /\ \A i \in 1..Len(primaryArgs) :
       PathSet(primaryArgs[i]) = {largeFiles[k].path : k \in 1..Len(largeFiles)}
  /\ FallbackStarted <=> (primaryEvents \cap {"close_nonzero", "error"} # {})
  /\ "close_zero" \in primaryEvents => ~FallbackStarted

C11_Witness ==
  /\ Len(primaryArgs) = 1 /\ Len(primaryArgs[1]) >= 2
  /\ primaryEvents = {"close_nonzero"}
  /\ fb["close"] = "done" /\ fb["error"] = "none"

(***************************************************************************)
(* C12: the release of the workspace is silent                             *)
(***************************************************************************)
LastPushOk == Len(pushLog) >= 1 /\ pushLog[Len(pushLog)].ok

\* C12: the finally block of mirrorRepository never raises and never changes
\* the outcome: whether fs.rm succeeds or fails, the error in flight stays
\* what it was, the call returns true exactly when the clone and a push
\* succeeded, and throws that same error otherwise
C12_ReleaseKeepsOutcome ==
  [][pc = "finally" /\ pc' = "done" =>
       /\ error' = error
       /\ outcome' = IF error = NoError THEN "returned" ELSE "threw"
       /\ (outcome' = "returned") <=> (repoPath /\ cloneCalls = 1 /\ LastPushOk)]_vars

\* the call has returned true although fs.rm failed in the finally block
C12_Witness ==
  /\ Terminated /\ repoPath /\ wsExists
  /\ outcome = "returned" /\ error = NoError

(***************************************************************************)
(* C13: malformed URLs                                                     *)
(***************************************************************************)
MalformedUrl == ~srcUrlOk \/ ~dstUrlOk
InvalidUrlError == error = MsgInvalidUrl
NothingAfterClone == pushLog = <<>> /\ scanCalls = 0 /\ rewriteCalls = 0

\* what a malformed URL keeps from being invoked, and that nothing is retried
NoCallPastMalformedUrl ==
  /\ ~srcUrlOk => cloneCalls = 0 /\ NothingAfterClone
  /\ ~dstUrlOk => cloneCalls <= 1 /\ NothingAfterClone

\* C13 (as stated): with a malformed source or destination URL
\* mirrorRepository fails with an invalid-URL error; with a malformed source
\* URL no clone is invoked, with a malformed destination URL no push, scan
\* or rewrite, and nothing is retried
C13_InvalidUrlFailsAtOnce ==
  MalformedUrl =>
    /\ NoCallPastMalformedUrl
    /\ Terminated => outcome = "threw" /\ InvalidUrlError

\* C13 (amended): the URLs are parsed where they are used, the source URL
\* after the temp directory was ensured and the destination URL after the
\* clone; the call throws the invalid-URL error unless one of those earlier
\* steps failed, whose error it throws instead
C13_InvalidUrlAfterEarlierSteps ==
  MalformedUrl =>
    /\ NoCallPastMalformedUrl
    /\ Terminated =>
         /\ outcome = "threw"
         /\ \/ InvalidUrlError
            \/ /\ cloneCalls = 0
               /\ Includes(error, <<"mkdir:">>)
            \/ /\ srcUrlOk /\ cloneCalls = 1 /\ ~repoPath
               /\ Includes(error, <<"Failed to clone repository:">>)
         /\ (srcUrlOk /\ repoPath) => InvalidUrlError
         /\ (~srcUrlOk /\ tempDirExists) => InvalidUrlError

\* the clone ran, the destination URL did not parse, and the call threw
C13_Witness ==
  /\ Terminated /\ srcUrlOk /\ ~dstUrlOk /\ cloneCalls = 1 /\ repoPath
  /\ outcome = "threw" /\ InvalidUrlError

(***************************************************************************)
(* C18: no duplicate among the scan's records and the rewriter's paths     *)
(***************************************************************************)
NoDuplicate(seq) ==
  \A i, j \in 1..Len(seq) : i # j => seq[i] # seq[j]

\* C18: the array findLargeFiles resolves with never holds two records
\* with the same object id, and the path list removeLargeFiles hands to the
\* rewriter never holds the same path twice, also when two different
\* oversized objects were introduced at the same path
C18_NoDuplicateRecordsOrPaths ==
  /\ NoDuplicate([i \in 1..Len(largeFiles) |-> largeFiles[i].hash])
  /\ \A k \in 1..Len(primaryArgs) : NoDuplicate(primaryArgs[k])

(***************************************************************************)
(* C19: a failed size lookup                                               *)
(***************************************************************************)
InScanResult(o) == \E i \in 1..Len(largeFiles) : largeFiles[i].hash = o

\* C19: a failed size lookup of one object does not abort the scan: once
\* rev-list closed with code 0 findLargeFiles resolves, the object whose
\* lookup failed is absent from the result, and every other enumerated
\* object of at least the threshold size, its lookup successful, is present
C19_FailedLookupSkipsObject ==
  /\ revList = "exit0" => scanState \in {"pending", "resolved"}
  /\ (revList = "exit0" /\ pc \notin {"revlist", "lookups"}) =>
       scanState = "resolved"
  /\ scanState = "resolved" =>
       \A o \in DOMAIN slots :
         /\ o \in lookupFailed => ~InScanResult(o)
         /\ (o \notin lookupFailed /\ SizeOf(o) >= DefaultSizeLimit) =>
              InScanResult(o)

\* the lookup of one oversized object failed, another one is in the result
C19_Witness ==
  /\ scanState = "resolved"
  /\ "video" \in lookupFailed /\ ~InScanResult("video")
  /\ "video2" \in DOMAIN slots /\ InScanResult("video2")

(***************************************************************************)
(* C20: what mirrorRepository may change                                   *)
(***************************************************************************)
\* the step appends a successful attemptPush to the log
PushSucceeds ==
  /\ Len(pushLog') = Len(pushLog) + 1
  /\ pushLog'[Len(pushLog')].ok

\* C20: mirrorRepository never changes the source repository, and the
\* references of the destination change only in a push step that succeeds:
\* clone, scan, rewrite, cleanup and a push that fails leave them as they
\* were
C20_OnlySuccessfulPushWrites ==
  [][/\ srcRefs' = srcRefs
     /\ destRefs' # destRefs => PushSucceeds]_vars

(***************************************************************************)
(* The command line driver (BitToHubMigrator): migrateAll,                 *)
(* migrateSpecific and migrateRepository.  Every await on an API client    *)
(* or on mirrorRepository is one step whose outcome the environment        *)
(* chooses; mirrorRepository, modelled step by step above, is here one     *)
(* call that returns or throws.  Clone, push, scan and rewrite are invoked *)
(* by mirrorRepository only.                                               *)
(***************************************************************************)
\* longest repository list explored
MaxRepos == 2

\* number of runs of the command line explored
MaxRuns == 2

\* repository names as path segments: 'demo', 'api', 'x/../demo', './api'
RepoNameSet == {<<"demo">>, <<"api">>, <<"x", "..", "demo">>, <<".", "api">>}

\* values of TEMP_DIR / --temp-dir: './temp' (the default) and 'work/tmp'
TempDirs == {<<".", "temp">>, <<"work", "tmp">>}

\* lists of distinct repository names
RepoLists ==
  UNION {{l \in [1..n -> RepoNameSet] :
            \A i, j \in 1..n : i # j => l[i] # l[j]} : n \in 0..MaxRepos}

\* path.normalize over the segments of a relative path: '.' is dropped and
\* '..' removes the segment before it (or stays when there is none)
RECURSIVE Normalize(_, _)
Normalize(rest, acc) ==
  IF rest = <<>> THEN acc
  ELSE LET h == Head(rest) IN
       IF h = "." THEN Normalize(Tail(rest), acc)
       ELSE IF h = ".."
            THEN IF acc # <<>> /\ acc[Len(acc)] # ".."
                 THEN Normalize(Tail(rest), SubSeq(acc, 1, Len(acc) - 1))
                 ELSE Normalize(Tail(rest), Append(acc, ".."))
            ELSE Normalize(Tail(rest), Append(acc, h))

\* path.join(a, b): the segments of both, normalized; '.' for an empty result
PathJoin(a, b) ==
  LET n == Normalize(a \o b, <<>>) IN IF n = <<>> THEN <<".">> ELSE n

\* cloneRepository: const repoPath = path.join(this.tempDir, repoName)
WorkspacePath(base, repoName) == PathJoin(base, repoName)

\* variant: an existing destination is never skipped
SkipsExisting_Never(skip, exists) == FALSE

\* migrateRepository: if (this.skipExisting && exists) ... return
SkipsExisting(skip, exists) == skip /\ exists

\* variant: the dry-run flag does not end migrateRepository
PreviewOnly_Never(dry) == FALSE

\* migrateRepository: if (this.dryRun) { log the preview; return }
PreviewOnly(dry) == dry

\* variant: the failure of one repository leaves the loop
OnFailure_Abort == "abort"

\* the catch inside the loops of migrateAll and migrateSpecific logs the
\* error, counts it and lets the loop go on
OnFailure == "continue"

\* no mirrorRepository call is modelled step by step
MirrorIdle ==
  /\ pc = "idle"
  /\ outcome = "pending"
  /\ error = NoError
  /\ repoPath = FALSE
  /\ tempDirExists = FALSE
  /\ wsExists = FALSE
  /\ srcUrlOk = TRUE
  /\ dstUrlOk = TRUE
  /\ srcRefs = EmptyRepo
  /\ localRefs = EmptyRepo
  /\ destRefs = EmptyRepo
  /\ cloneCalls = 0
  /\ pushLog = <<>>
  /\ scanCalls = 0
  /\ revList = "none"
  /\ scanState = "none"
  /\ rewriteCalls = 0
  /\ slots = EmptyRepo
  /\ lookupFailed = {}
  /\ largeFiles = <<>>
  /\ primary = "none"
  /\ fb = [h \in Handlers |-> "none"]
  /\ rwPromise = "none"
  /\ rwError = NoError
  /\ primaryArgs = <<>>
  /\ primaryEvents = {}
  /\ deleteFailed = {}
  /\ gitCleanup = <<>>

DriverInit ==
  /\ command \in {"migrate", "migrate-specific"}
  /\ dryRun \in BOOLEAN
  /\ skipExisting \in BOOLEAN
  /\ tempDir \in TempDirs
  /\ repoNames \in RepoLists
  /\ githubRepos \in SUBSET {repoNames[i] : i \in 1..Len(repoNames)}
  /\ dpc = "start"
  /\ idx = 1
  /\ calls = <<>>
  /\ workspaces = <<>>
  /\ stats = [total |-> 0, success |-> 0, failed |-> 0, skipped |-> 0]
  /\ run = 1
  /\ createdEmpty = {}
  /\ PagerIdle
  /\ MirrorIdle

CurrentRepo == repoNames[idx]

\* no HTTP answer recorded for a call
NoResponse == [status |-> "none", message |-> "none"]

\* one call to the GitHub client: the HTTP answer it got, whether it
\* returned (ok) and what (val), or the message of the Error it threw (err)
ApiCall(op, ok, val, resp, err) ==
  [repo |-> CurrentRepo, op |-> op, ok |-> ok, val |-> val, resp |-> resp,
   err |-> err]

\* one call to an API client or to mirrorRepository, and what it answered
Call(op, ok, val) == ApiCall(op, ok, val, NoResponse, NoError)

\* what axios gives GitHubAPI: a 2xx answer resolves; any other status
\* rejects with error.response set; no answer at all (network) rejects
\* with error.response undefined.  message is errors[0].message of a 422.
HttpOk(resp) == resp.status \in {"200", "201"}

\* answers to GET /repos/{owner}/{name}, for a repository that exists or not
ExistsResponses(exists) ==
  {[status |-> IF exists THEN "200" ELSE "404", message |-> "none"],
   [status |-> "403", message |-> "none"],
   [status |-> "network", message |-> "none"]}

\* messages of the first validation error of a 422
MsgNameExists == "name already exists on this account"
MsgNameInvalid == "name is too long"

\* String.includes('already exists') over the messages above
IncludesAlreadyExists(message) == message = MsgNameExists

\* answers to POST /user/repos or /orgs/{org}/repos
CreateResponses ==
  {[status |-> "201", message |-> "none"],
   [status |-> "422", message |-> MsgNameExists],
   [status |-> "422", message |-> MsgNameInvalid],
   [status |-> "422", message |-> "none"],
   [status |-> "403", message |-> "none"],
   [status |-> "network", message |-> "none"]}

\* variant: every failed check means 'does not exist'
RepositoryExistsResult_FailureIsAbsent(resp) ==
  IF HttpOk(resp) THEN "true" ELSE "false"

\* GitHubAPI.repositoryExists: true on an answer, false on 404, throws on
\* anything else
RepositoryExistsResult(resp) ==
  IF HttpOk(resp) THEN "true"
  ELSE IF resp.status = "404" THEN "false"
  ELSE "throw"

\* GitHubAPI.createRepository's catch: the condition of its first throw
IsAlreadyExists(resp) ==
  resp.status = "422" /\ IncludesAlreadyExists(resp.message)

\* GitHubAPI.createRepository: the message of the Error it throws,
\* 'Repository <name> already exists on GitHub' or
\* 'Failed to create repository <name>: <status> <statusText or message>'
CreateRepositoryError(name, resp) ==
  IF IsAlreadyExists(resp)
  THEN <<"Repository", name, "already exists on GitHub">>
  ELSE <<"Failed to create repository", name, resp.status>>

\* the end of one loop iteration: migrateRepository returned (after a skip
\* or not) or something threw into the loop's catch
Finish(kind) ==
  IF kind = "failed" /\ OnFailure = "abort"
  THEN /\ dpc' = "exited"
       /\ UNCHANGED <<idx, stats>>
  ELSE /\ idx' = idx + 1
       /\ dpc' = "loop"
       /\ stats' =
            CASE kind = "success" -> [stats EXCEPT !.success = @ + 1]
              [] kind = "skipped" -> [stats EXCEPT !.skipped = @ + 1,
                                                   !.success = @ + 1]
              [] kind = "failed"  -> [stats EXCEPT !.failed = @ + 1]

\* migrateAll: getAllRepositories; its failure ends the process
StartMigrateAll ==
  /\ dpc = "start"
  /\ command = "migrate"
  /\ \/ /\ stats' = [stats EXCEPT !.total = Len(repoNames)]
        /\ dpc' = "loop"
     \/ /\ dpc' = "exited"
        /\ UNCHANGED stats
  /\ UNCHANGED <<command, dryRun, skipExisting, tempDir, repoNames,
                 githubRepos, idx, calls, workspaces>>
  /\ UNCHANGED <<run, createdEmpty, pagerVars, mirrorVars>>

\* migrateSpecific: the list is the command line's
StartMigrateSpecific ==
  /\ dpc = "start"
  /\ command = "migrate-specific"
  /\ stats' = [stats EXCEPT !.total = Len(repoNames)]
  /\ dpc' = "loop"
  /\ UNCHANGED <<command, dryRun, skipExisting, tempDir, repoNames,
                 githubRepos, idx, calls, workspaces>>
  /\ UNCHANGED <<run, createdEmpty, pagerVars, mirrorVars>>

\* the head of the for loop
NextRepository ==
  /\ dpc = "loop"
  /\ dpc' = IF idx <= Len(repoNames)
            THEN IF command = "migrate" THEN "exists" ELSE "fetch"
            ELSE "cleanup"
  /\ UNCHANGED <<command, dryRun, skipExisting, tempDir, repoNames,
                 githubRepos, idx, calls, workspaces, stats>>
  /\ UNCHANGED <<run, createdEmpty, pagerVars, mirrorVars>>

\* migrateSpecific: bitbucket.getRepository(repoName), inside the try
BitbucketGetRepository ==
  /\ dpc = "fetch"
  /\ \E ok \in BOOLEAN :
       /\ calls' = Append(calls, Call("bitbucket.getRepository", ok, ok))
       /\ IF ok THEN dpc' = "exists" /\ UNCHANGED <<idx, stats>>
                ELSE Finish("failed")
  /\ UNCHANGED <<command, dryRun, skipExisting, tempDir, repoNames,
                 githubRepos, workspaces>>
  /\ UNCHANGED <<run, createdEmpty, pagerVars, mirrorVars>>

\* migrateRepository up to its next await: repositoryExists, then the skip
\* and the dry-run returns
RepositoryExists ==
  /\ dpc = "exists"
  /\ \E resp \in ExistsResponses(CurrentRepo \in githubRepos) :
       LET result == RepositoryExistsResult(resp)
           ok == result # "throw"
           exists == result = "true"
       IN
       /\ calls' = Append(calls,
            ApiCall("repositoryExists", ok, exists, resp, NoError))
       /\ IF ~ok THEN Finish("failed")
          ELSE IF SkipsExisting(skipExisting, exists) THEN Finish("skipped")
          ELSE IF PreviewOnly(dryRun) THEN Finish("success")
          ELSE /\ dpc' = IF ~exists THEN "create" ELSE "get"
               /\ UNCHANGED <<idx, stats>>
  /\ UNCHANGED <<command, dryRun, skipExisting, tempDir, repoNames,
                 githubRepos, workspaces>>
  /\ UNCHANGED <<run, createdEmpty, pagerVars, mirrorVars>>

\* github.createRepository(repo); a failure is rethrown
CreateRepository ==
  /\ dpc = "create"
  /\ \E resp \in CreateResponses :
       LET ok == HttpOk(resp) IN
       /\ calls' = Append(calls,
            ApiCall("createRepository", ok, ok, resp,
                    IF ok THEN NoError
                    ELSE CreateRepositoryError(CurrentRepo, resp)))
       /\ IF ok
          THEN /\ githubRepos' = githubRepos \cup {CurrentRepo}
               /\ createdEmpty' = createdEmpty \cup {CurrentRepo}
               /\ dpc' = "mirror"
               /\ UNCHANGED <<idx, stats>>
          ELSE /\ Finish("failed")
               /\ UNCHANGED <<githubRepos, createdEmpty>>
  /\ UNCHANGED <<command, dryRun, skipExisting, tempDir, repoNames,
                 workspaces>>
  /\ UNCHANGED <<run, pagerVars, mirrorVars>>

\* github.getRepository(repo.name) for a destination that exists
GetRepository ==
  /\ dpc = "get"
  /\ \E ok \in BOOLEAN :
       /\ calls' = Append(calls, Call("getRepository", ok, ok))
       /\ IF ok THEN dpc' = "mirror" /\ UNCHANGED <<idx, stats>>
                ELSE Finish("failed")
  /\ UNCHANGED <<command, dryRun, skipExisting, tempDir, repoNames,
                 githubRepos, workspaces>>
  /\ UNCHANGED <<run, createdEmpty, pagerVars, mirrorVars>>

\* git.mirrorRepository(repo.cloneUrl, githubRepo.cloneUrl, repo.name, ...)
MirrorRepository ==
  /\ dpc = "mirror"
  /\ \E ok \in BOOLEAN :
       /\ calls' = Append(calls, Call("mirrorRepository", ok, ok))
       /\ Finish(IF ok THEN "success" ELSE "failed")
       /\ createdEmpty' = IF ok THEN createdEmpty \ {CurrentRepo}
                                ELSE createdEmpty
  /\ workspaces' = Append(workspaces,
       [name |-> CurrentRepo, path |-> WorkspacePath(tempDir, CurrentRepo)])
  /\ UNCHANGED <<command, dryRun, skipExisting, tempDir, repoNames,
                 githubRepos>>
  /\ UNCHANGED <<run, pagerVars, mirrorVars>>

\* after the loop: git.cleanupTempDir() and the summary
CleanupTempDir ==
  /\ dpc = "cleanup"
  /\ dpc' = "done"
  /\ UNCHANGED <<command, dryRun, skipExisting, tempDir, repoNames,
                 githubRepos, idx, calls, workspaces, stats>>
  /\ UNCHANGED <<run, createdEmpty, pagerVars, mirrorVars>>

\* the command line is started again with the same settings and the same
\* list: a new process, whose constructor zeroes this.stats; what exists on
\* GitHub stays
RunAgain ==
  /\ dpc \in {"done", "exited"}
  /\ run < MaxRuns
  /\ run' = run + 1
  /\ dpc' = "start"
  /\ idx' = 1
  /\ calls' = <<>>
  /\ workspaces' = <<>>
  /\ stats' = [total |-> 0, success |-> 0, failed |-> 0, skipped |-> 0]
  /\ UNCHANGED <<command, dryRun, skipExisting, tempDir, repoNames,
                 githubRepos, createdEmpty>>
  /\ UNCHANGED <<pagerVars, mirrorVars>>

DriverNext ==
  \/ StartMigrateAll
  \/ StartMigrateSpecific
  \/ NextRepository
  \/ BitbucketGetRepository
  \/ RepositoryExists
  \/ CreateRepository
  \/ GetRepository
  \/ MirrorRepository
  \/ CleanupTempDir

DriverSpec == DriverInit /\ [][DriverNext]_vars

\* repeated runs without dry run, under the default TEMP_DIR './temp';
\* SKIP_EXISTING on (the default) or off
RerunInit ==
  /\ DriverInit
  /\ dryRun = FALSE
  /\ tempDir = <<".", "temp">>

RerunNext == DriverNext \/ RunAgain

RerunSpec == RerunInit /\ [][RerunNext]_vars

DriverTypeOK ==
  /\ dpc \in {"start", "loop", "fetch", "exists", "create", "get", "mirror",
              "cleanup", "done", "exited"}
  /\ idx \in 1..(Len(repoNames) + 1)
  /\ Len(calls) <= 4 * Len(repoNames)
  /\ stats.success + stats.failed <= stats.total

(***************************************************************************)
(* C14: dry-run                                                            *)
(***************************************************************************)
\* the loop is past the repository at this position of the list
Finished(i) == i < idx \/ dpc \in {"cleanup", "done"}

FailedCalls == {k \in 1..Len(calls) : ~calls[k].ok}

FirstOp == IF command = "migrate" THEN "repositoryExists"
                                  ELSE "bitbucket.getRepository"

\* the repositories taken up so far, in the order they were taken up
RECURSIVE Processed(_)
Processed(log) ==
  IF log = <<>> THEN <<>>
  ELSE IF Head(log).op = FirstOp
       THEN <<Head(log).repo>> \o Processed(Tail(log))
       ELSE Processed(Tail(log))

\* C15: the failure of one repository never aborts the run: in migrateAll
\* and in migrateSpecific the repositories are taken up one by one in list
\* order, the loop is left only at the end of the list, and the process is
\* ended early only before the first repository
C15_EveryRepositoryInListOrder ==
  LET done == Processed(calls) IN
  /\ Len(done) <= Len(repoNames)
  /\ \A k \in 1..Len(done) : done[k] = repoNames[k]
  /\ \A i \in 1..Len(repoNames) : Finished(i) => i <= Len(done)
  /\ dpc \in {"cleanup", "done"} => done = repoNames
  /\ dpc = "exited" => calls = <<>>
  /\ stats.failed > 0 => dpc # "exited"

\* the first repository failed in mirrorRepository, the second was mirrored
C15_Witness ==
  /\ dpc = "done" /\ Len(repoNames) = 2
  /\ stats.failed = 1 /\ stats.success = 1
  /\ \E k \in 1..Len(calls) :
       /\ calls[k].repo = repoNames[1] /\ calls[k].op = "mirrorRepository"
       /\ ~calls[k].ok
       /\ \E m \in (k + 1)..Len(calls) :
            /\ calls[m].repo = repoNames[2]
            /\ calls[m].op = "mirrorRepository"
            /\ calls[m].ok

(***************************************************************************)
(* C16: skip-existing, creation, fetch and mirror                          *)
(***************************************************************************)
\* positions in the log of the calls with this operation for this repository
CallsOf(name, op) ==
  {k \in 1..Len(calls) : calls[k].repo = name /\ calls[k].op = op}

\* the existence check of this repository answered true
FoundOnGitHub(name) ==
  \E k \in CallsOf(name, "repositoryExists") : calls[k].ok /\ calls[k].val

\* a repository found on GitHub with skip-existing on is skipped: no
\* creation, no fetch, no mirror (hence no clone and no push)
SkippedWhenExisting ==
  skipExisting =>
    /\ \A i \in 1..Len(repoNames) :
         FoundOnGitHub(repoNames[i]) =>
           /\ CallsOf(repoNames[i], "createRepository") = {}
           /\ CallsOf(repoNames[i], "getRepository") = {}
           /\ CallsOf(repoNames[i], "mirrorRepository") = {}
    /\ stats.skipped =
         Cardinality({i \in 1..Len(repoNames) : FoundOnGitHub(repoNames[i])})

\* a repository found on GitHub with skip-existing off: no creation, the
\* repository is fetched and, the fetch answered, mirrored
UpdatedWhenExisting(i) ==
  LET name == repoNames[i] IN
  /\ CallsOf(name, "createRepository") = {}
  /\ Finished(i) =>
       /\ CallsOf(name, "getRepository") # {}
       /\ (\E k \in CallsOf(name, "getRepository") : calls[k].ok) =>
            CallsOf(name, "mirrorRepository") # {}

\* creation only after the check answered false; the mirror only right
\* after a creation or a fetch that succeeded
OnlyAfter ==
  /\ \A k \in 1..Len(calls) :
       calls[k].op = "createRepository" =>
         /\ k > 1 /\ calls[k - 1].repo = calls[k].repo
         /\ calls[k - 1].op = "repositoryExists"
         /\ calls[k - 1].ok /\ ~calls[k - 1].val
  /\ \A k \in 1..Len(calls) :
       calls[k].op = "mirrorRepository" =>
         /\ k > 1 /\ calls[k - 1].repo = calls[k].repo
         /\ calls[k - 1].op \in {"createRepository", "getRepository"}
         /\ calls[k - 1].ok

\* C16 (as stated): with skip-existing on an existing destination is
\* skipped; with skip-existing off and the destination existing no creation
\* is invoked, the repository is fetched and the mirror is run; creation
\* only when the check returned false, the mirror only after creation or
\* fetch succeeded
C16_ExistingDestination ==
  /\ SkippedWhenExisting
  /\ ~skipExisting =>
       \A i \in 1..Len(repoNames) :
         FoundOnGitHub(repoNames[i]) => UpdatedWhenExisting(i)
  /\ OnlyAfter

\* C16 (amended): the same, the fetch and the mirror of an existing
\* destination only outside dry-run mode; in dry-run mode the repository is
\* previewed and nothing is fetched or mirrored
C16_ExistingDestinationOutsideDryRun ==
  /\ SkippedWhenExisting
  /\ (~skipExisting /\ ~dryRun) =>
       \A i \in 1..Len(repoNames) :
         FoundOnGitHub(repoNames[i]) => UpdatedWhenExisting(i)
  /\ (~skipExisting /\ dryRun) =>
       \A i \in 1..Len(repoNames) :
         /\ CallsOf(repoNames[i], "getRepository") = {}
         /\ CallsOf(repoNames[i], "mirrorRepository") = {}
  /\ OnlyAfter

\* skip-existing off: an existing destination was fetched and mirrored, a
\* missing one created and mirrored
C16_Witness ==
  /\ ~skipExisting /\ ~dryRun /\ dpc = "done" /\ Len(repoNames) = 2
  /\ \E i \in 1..2 :
       /\ FoundOnGitHub(repoNames[i])
       /\ CallsOf(repoNames[i], "getRepository") # {}
       /\ CallsOf(repoNames[i], "mirrorRepository") # {}
       /\ CallsOf(repoNames[3 - i], "createRepository") # {}
       /\ CallsOf(repoNames[3 - i], "mirrorRepository") # {}

(***************************************************************************)
(* C17: the workspace path                                                 *)
(***************************************************************************)
\* C17: the workspace path is a function of the base directory and the
\* repository name (every mirrorRepository call gets path.join of the two),
\* and two distinct repository names under the same base directory yield
\* two distinct workspace paths
C17_DistinctNamesDistinctPaths ==
  /\ \A k \in 1..Len(workspaces) :
       workspaces[k].path = WorkspacePath(tempDir, workspaces[k].name)
  /\ \A j, k \in 1..Len(workspaces) :
       workspaces[j].name # workspaces[k].name =>
         workspaces[j].path # workspaces[k].path

(***************************************************************************)
(* C21, C22: the subprocesses of one removeLargeFiles call                 *)
(***************************************************************************)
\* git filter-repo, or a fallback run some handler started, has not ended
RewriteRunning ==
  \/ primary = "running"
  \/ \E h \in Handlers : fb[h] \in {"filter", "refs"}

\* C21: no step of one attempt runs beside another: while the post-rewrite
\* cleanup, the retry push or the removal of the workspace is about to
\* start, no rewrite subprocess (git filter-repo or a fallback run) is
\* still running, also when the process emitted both 'error' and 'close'
C21_NoRewriteBesideLaterSteps ==
  pc \in {"cleanup", "p_retry", "finally"} => ~RewriteRunning

\* C22: the fallback strategy is started at most once per removeLargeFiles
\* call, whatever 'error' and 'close' events git filter-repo delivers
C22_FallbackStartedAtMostOnce ==
  Cardinality({h \in Handlers : fb[h] # "none"}) <= 1

(***************************************************************************)
(* C23: at most two pushes, one scan, one rewrite                          *)
(***************************************************************************)
SecondPushFailed == Len(pushLog) = 2 /\ ~pushLog[2].ok

\* C23: in one mirrorRepository call, whatever the outcomes of its steps,
\* attemptPush is invoked at most twice, findLargeFiles at most once and
\* removeLargeFiles at most once; after a failure of the second push, with
\* or without a large-object signature, nothing more is invoked and the
\* call throws
C23_TwoPushesOneScanOneRewrite ==
  /\ Len(pushLog) <= 2
  /\ scanCalls <= 1
  /\ rewriteCalls <= 1
  /\ SecondPushFailed =>
       /\ pc \in {"finally", "done"}
       /\ error # NoError
       /\ Terminated => outcome = "threw"

\* the retry push failed for a reason that is no large-object signature
C23_Witness ==
  /\ Terminated /\ SecondPushFailed /\ pushLog[2].msg = MsgAuth
  /\ scanCalls = 1 /\ rewriteCalls = 1 /\ outcome = "threw"

(***************************************************************************)
(* C24: the order of the steps                                             *)
(***************************************************************************)
\* C24: the steps of one mirrorRepository call come in the order clone,
\* push, scan, rewrite, retry push: a push only after the clone succeeded,
\* the scan only after the first push failed with one of the two large-file
\* texts of GitHub in its message, the rewrite only after the scan
\* resolved with a non-empty array, the retry push only after the rewrite
\* resolved; after a successful first push no scan, rewrite or second push
C24_StepOrder ==
  /\ Len(pushLog) >= 1 => cloneCalls = 1 /\ repoPath
  /\ scanCalls >= 1 =>
       /\ Len(pushLog) >= 1
       /\ ~pushLog[1].ok /\ LargeObjectSignature(pushLog[1].msg)
  /\ rewriteCalls >= 1 =>
       /\ scanCalls = 1 /\ scanState = "resolved"
       /\ Len(largeFiles) > 0
  /\ (pc = "p_retry" \/ Len(pushLog) = 2) =>
       /\ rewriteCalls = 1 /\ rwPromise = "resolved"
  /\ (Len(pushLog) >= 1 /\ pushLog[1].ok) =>
       /\ Len(pushLog) = 1
       /\ scanCalls = 0 /\ rewriteCalls = 0

\* all five steps happened, the retry push succeeded
C24_Witness ==
  /\ Terminated /\ outcome = "returned"
  /\ cloneCalls = 1 /\ scanCalls = 1 /\ rewriteCalls = 1
  /\ Len(pushLog) = 2 /\ ~pushLog[1].ok /\ pushLog[2].ok

(***************************************************************************)
(* C25, C26: the backup references of git filter-branch                    *)
(***************************************************************************)
FallbackDone == \E h \in Handlers : fb[h] = "done"
BackupsIn(refs) == BackupRefs \cap DOMAIN refs

C26_FailedDeletionSkipped ==
  [][\A h \in Handlers :
       (fb[h] = "refs" /\ fb'[h] # "refs" /\ deleteFailed' # deleteFailed) =>
         /\ fb'[h] = "done"
         /\ BackupsIn(localRefs') = BackupsIn(localRefs) \cap deleteFailed'
         /\ rwPromise = "pending" => rwPromise' = "resolved"]_vars

\* one deletion failed, another succeeded, and removeLargeFiles resolved
C26_Witness ==
  /\ FallbackDone /\ rwPromise = "resolved"
  /\ deleteFailed # {} /\ BackupsIn(localRefs) = deleteFailed
  /\ \E r \in BranchesAndTags :
       /\ r \in DOMAIN localRefs /\ localRefs[r] # srcRefs[r]
       /\ BackupOf(r) \notin DOMAIN localRefs

(***************************************************************************)
(* C27: the cleanup between rewrite and retry                              *)
(***************************************************************************)
RetryReached == pc = "p_retry" \/ Len(pushLog) = 2
Invoked(cmd) == \E i \in 1..Len(gitCleanup) : gitCleanup[i].cmd = cmd

\* C27: when the retry push starts, after either rewrite
\* strategy, both the reflog expiry and the aggressive garbage collection
\* have been run on the local mirror
C27_ReflogAndGcBeforeRetry ==
  RetryReached => Invoked("reflog") /\ Invoked("gc")

(***************************************************************************)
(* C28: what findLargeFiles reports                                        *)
(***************************************************************************)
\* the objects rev-list prints with a path for the mirror as it was cloned
Enumerated == Reachable(CloneBare(srcRefs))

\* C28: findLargeFiles resolves with a record (path, size, hash) for an
\* enumerated object with a path if and only if its size lookup succeeded
\* with a size of at least the threshold, 100 * 1024 * 1024 bytes by
\* default: a size equal to the threshold is reported, a smaller one is
\* not, and an entry without a path (a commit) never is
C28_RecordIffAtLeastThreshold ==
  /\ DefaultSizeLimit = 100 * 1024 * 1024
  /\ scanState = "resolved" =>
       /\ \A o \in Objects :
            InScanResult(o) <=>
              /\ o \in Enumerated
              /\ o \notin lookupFailed
              /\ SizeOf(o) >= 100 * 1024 * 1024
       /\ \A i \in 1..Len(largeFiles) :
            /\ largeFiles[i].hash \in Objects
            /\ largeFiles[i].path = PathOf(largeFiles[i].hash)
            /\ largeFiles[i].size = SizeOf(largeFiles[i].hash)

\* an object of exactly the threshold size is reported, a small one whose
\* lookup succeeded is not
C28_Witness ==
  /\ scanState = "resolved"
  /\ InScanResult("edge") /\ SizeOf("edge") = DefaultSizeLimit
  /\ "readme" \in Enumerated \ lookupFailed /\ ~InScanResult("readme")

(***************************************************************************)
(* C29: the order in which the lookups settle                              *)
(***************************************************************************)
\* the records in enumeration order, from the sizes and the failed lookups
\* alone
RECURSIVE ExpectedRecords(_, _, _)
ExpectedRecords(order, objs, failed) ==
  IF order = <<>> THEN <<>>
  ELSE LET o == Head(order)
           rest == ExpectedRecords(Tail(order), objs, failed)
       IN IF o \in objs /\ o \notin failed /\ SizeOf(o) >= DefaultSizeLimit
          THEN <<[path |-> PathOf(o), size |-> SizeOf(o), hash |-> o]>> \o rest
          ELSE rest

\* C29: the array findLargeFiles resolves with does not depend on the order
\* in which the size lookups settle: in every interleaving it is the
\* records of the objects whose lookup succeeded with a size of at least
\* the limit, in enumeration order, and the scan resolves only when no
\* lookup is pending any more
C29_LookupOrderIrrelevant ==
  scanState = "resolved" =>
    /\ \A o \in DOMAIN slots : slots[o] # PendingResult
    /\ DOMAIN slots = Enumerated
    /\ largeFiles = ExpectedRecords(ObjOrder, Enumerated, lookupFailed)

\* three lookups, one of them failed, and two records in the result
C29_Witness ==
  /\ scanState = "resolved"
  /\ Cardinality(DOMAIN slots) >= 3
  /\ lookupFailed # {}
  /\ Len(largeFiles) = 2

(***************************************************************************)
(* C30: one outcome per repository                                         *)
(***************************************************************************)
\* C30: when migrateAll or migrateSpecific has gone through its list, every
\* repository has been counted in exactly one of stats.success,
\* stats.skipped and stats.failed: the three counters add up to
\* stats.total, the number of repositories
C30_OneOutcomePerRepository ==
  dpc \in {"cleanup", "done"} =>
    /\ stats.total = Len(repoNames)
    /\ stats.success + stats.skipped + stats.failed = stats.total

(***************************************************************************)
(* C31: a later run after a partial completion                             *)
(***************************************************************************)
\* this run called mirrorRepository for the repository
MirrorAttempted(name) == CallsOf(name, "mirrorRepository") # {}

\* this run took the skip-existing return for the repository
ReportedSkipped(name) ==
  \E k \in CallsOf(name, "repositoryExists") :
    calls[k].ok /\ SkipsExisting(skipExisting, calls[k].val)

\* C31: a repository that an earlier run created on GitHub and failed to
\* mirror is, in a later run with the default settings, mirrored again: once
\* the later run is past it, the run has called mirrorRepository for it
\* (unless one of the reads before it failed), and has not reported it as
\* skipped while nothing was ever pushed to it
C31_RerunMirrorsAgain ==
  run > 1 /\ skipExisting =>
    \A i \in 1..Len(repoNames) :
      Finished(i) /\ repoNames[i] \in createdEmpty =>
        /\ ~ReportedSkipped(repoNames[i])
        /\ MirrorAttempted(repoNames[i])
             \/ \E k \in FailedCalls : calls[k].repo = repoNames[i]

(***************************************************************************)
(* C32: the answers of repositoryExists and createRepository               *)
(***************************************************************************)
\* the Error createRepository throws for this answer is the 'already
\* exists' one
SignalsAlreadyExists(name, resp) ==
  CreateRepositoryError(name, resp) =
    <<"Repository", name, "already exists on GitHub">>

\* C32: repositoryExists returns false exactly when GitHub answered 404,
\* returns true exactly when GitHub answered the request, and throws on
\* every other failure of the check; the Error createRepository throws when
\* GitHub refuses the name as already existing differs from the Error of
\* every other creation failure
C32_NotFoundOnly404 ==
  \A k \in 1..Len(calls) :
    /\ calls[k].op = "repositoryExists" =>
         /\ (calls[k].ok /\ ~calls[k].val) <=> calls[k].resp.status = "404"
         /\ (calls[k].ok /\ calls[k].val) <=> calls[k].resp.status = "200"
         /\ ~calls[k].ok <=> calls[k].resp.status \notin {"200", "404"}
    /\ calls[k].op = "createRepository" /\ IsAlreadyExists(calls[k].resp) =>
         /\ ~calls[k].ok
         /\ SignalsAlreadyExists(calls[k].repo, calls[k].resp)
         /\ \A other \in CreateResponses, name \in RepoNameSet :
              ~HttpOk(other) /\ ~IsAlreadyExists(other) =>
                CreateRepositoryError(name, other) # calls[k].err

\* one repository found absent (404) whose creation was refused as already
\* existing, and one whose check failed with a 403 and threw
C32_Witness ==
  /\ \E k \in 1..Len(calls) :
       /\ calls[k].op = "repositoryExists"
       /\ calls[k].resp.status = "404" /\ calls[k].ok /\ ~calls[k].val
  /\ \E k \in 1..Len(calls) :
       /\ calls[k].op = "createRepository"
       /\ IsAlreadyExists(calls[k].resp) /\ ~calls[k].ok
  /\ \E k \in 1..Len(calls) :
       /\ calls[k].op = "repositoryExists"
       /\ calls[k].resp.status = "403" /\ ~calls[k].ok

(***************************************************************************)
(* BitbucketAPI.getAllRepositories (part_000).  An absolute URL is a host, *)
(* the segments of its path and the page its query asks for; a relative    *)
(* one has no host.  The server lists the workspace's repositories at      *)
(* /2.0/repositories/<workspace>, page by page, and answers 404 elsewhere. *)
(***************************************************************************)
\* most pages the server's list has
MaxPages == 3

\* most repositories on one page
MaxPerPage == 2

ApiHost == "api.bitbucket.org"

\* this.baseURL = 'https://api.bitbucket.org/2.0'
BaseURL == [host |-> ApiHost, path |-> <<"2.0">>]

\* let url = `/repositories/${this.workspace}?pagelen=100`
FirstUrl == [path |-> <<"repositories", "ws">>, page |-> 1]

\* url = null, and a page without data.next
NoUrl == <<>>

\* where the server has the list
ListPath == <<"2.0", "repositories", "ws">>

\* the repositories of page p: p.1, p.2, ...
PageValues(p, n) == [i \in 1..n |-> <<p, i>>]

\* the lists the server may hold: 1..MaxPages pages of 0..MaxPerPage values
PageLists ==
  UNION {{[p \in 1..n |-> PageValues(p, size[p])] :
            size \in [1..n -> 0..MaxPerPage]} : n \in 1..MaxPages}

\* axios, for a request URL that is not absolute: combineURLs(baseURL, url),
\* the base's path followed by the URL's
CombineURLs(base, rel) ==
  [host |-> base.host, path |-> base.path \o rel.path, page |-> rel.page]

\* new URL(data.next).pathname + new URL(data.next).search
PathnameAndSearch(link) == [path |-> link.path, page |-> link.page]

\* the answer to GET full: the page and the link to the one after it, 404
\* for anything that is not a page of the list, no answer on a network fault
Serve(full, netOk) ==
  IF ~netOk THEN [status |-> "network", values |-> <<>>, next |-> NoUrl]
  ELSE IF full.host = ApiHost /\ full.path = ListPath
          /\ full.page \in 1..Len(pages)
  THEN [status |-> "200", values |-> pages[full.page],
        next |-> IF full.page < Len(pages)
                 THEN [host |-> ApiHost, path |-> ListPath,
                       page |-> full.page + 1]
                 ELSE NoUrl]
  ELSE [status |-> "404", values |-> <<>>, next |-> NoUrl]

\* url = data.next ? pathname + search : null
NextUrl(next) == IF next # NoUrl THEN PathnameAndSearch(next) ELSE NoUrl

PagerInit ==
  /\ MirrorIdle
  /\ command = "none"
  /\ dryRun = FALSE
  /\ skipExisting = TRUE
  /\ tempDir = <<>>
  /\ repoNames = <<>>
  /\ githubRepos = {}
  /\ dpc = "idle"
  /\ idx = 1
  /\ calls = <<>>
  /\ workspaces = <<>>
  /\ stats = [total |-> 0, success |-> 0, failed |-> 0, skipped |-> 0]
  /\ run = 1
  /\ createdEmpty = {}
  /\ pages \in PageLists
  /\ gpc = "loop"
  /\ url = FirstUrl
  /\ repositories = <<>>
  /\ requests = <<>>
  /\ nextLinks = <<>>

pagerLocals == <<command, dryRun, skipExisting, tempDir, repoNames,
                 githubRepos, dpc, idx, calls, workspaces, stats, run,
                 createdEmpty>>

\* one turn of while (url): the request, and either the page's values and
\* the next url, or the catch that throws 'Failed to fetch repositories'
GetPage ==
  /\ gpc = "loop"
  /\ url # NoUrl
  /\ \E netOk \in BOOLEAN :
       LET full == CombineURLs(BaseURL, url)
           resp == Serve(full, netOk)
       IN
       /\ requests' = Append(requests, [url |-> full, status |-> resp.status])
       /\ IF resp.status = "200"
          THEN /\ repositories' = repositories \o resp.values
               /\ nextLinks' = Append(nextLinks, resp.next)
               /\ url' = NextUrl(resp.next)
               /\ UNCHANGED gpc
          ELSE /\ gpc' = "thrown"
               /\ UNCHANGED <<repositories, nextLinks, url>>
  /\ UNCHANGED <<pages, pagerLocals, mirrorVars>>

\* url is null: return repositories.map(...)
ReturnRepositories ==
  /\ gpc = "loop"
  /\ url = NoUrl
  /\ gpc' = "returned"
  /\ UNCHANGED <<pages, url, repositories, requests, nextLinks>>
  /\ UNCHANGED <<pagerLocals, mirrorVars>>

PagerNext == GetPage \/ ReturnRepositories

PagerSpec == PagerInit /\ [][PagerNext]_vars

\* every value of every page, in page order
RECURSIVE Flatten(_)
Flatten(ps) == IF ps = <<>> THEN <<>> ELSE Head(ps) \o Flatten(Tail(ps))

(***************************************************************************)
(* C33: pagination                                                         *)
(***************************************************************************)
\* C33: getAllRepositories requests the first page of the list and then
\* the next link of each page it received; when it returns, it has
\* requested every page once, every request was answered, and its list is
\* the values of all pages in page order, each once; a request that fails
\* makes the call throw and nothing is returned
C33_PaginatesEveryPage ==
  /\ \A k \in 1..Len(requests) :
       requests[k].url =
         IF k = 1 THEN [host |-> ApiHost, path |-> ListPath, page |-> 1]
         ELSE nextLinks[k - 1]
  /\ gpc = "returned" =>
       /\ Len(requests) = Len(pages)
       /\ \A k \in 1..Len(requests) : requests[k].status = "200"
       /\ nextLinks[Len(nextLinks)] = NoUrl
       /\ repositories = Flatten(pages)
  /\ (\E k \in 1..Len(requests) : requests[k].status # "200") =>
       gpc = "thrown"

(***************************************************************************)
(* C34: termination of mirrorRepository                                    *)
(***************************************************************************)
\* C34: when every subprocess and file system call completes, every
\* mirrorRepository call eventually returns true or throws to its caller:
\* it never stays waiting for a promise that nothing settles
C34_MirrorTerminates == <>(Terminated /\ outcome \in {"returned", "threw"})

\* a call that went through the scan and a rewrite that fell back after
\* both events of a failed spawn, and returned
C34_Witness ==
  /\ pc = "done"
  /\ outcome = "returned"
  /\ scanState = "resolved"
  /\ primaryEvents = {"error", "close_nonzero"}
  /\ rwPromise = "resolved"

====
